---- MODULE Spec2Model ----
(***************************************************************************)
(* The home page of the salon-booking front end: the HomeComponent         *)
(* view-model (home.component.ts) and the router configuration `routes`.   *)
(*                                                                         *)
(* A string of the source is modelled as the sequence of its Unicode code  *)
(* points, so the empty string '' is << >> and "non-empty" is Len(s) > 0.  *)
(* A component class is modelled by its name.                              *)
(***************************************************************************)
EXTENDS Integers, Sequences, FiniteSets

VARIABLES
    config,     \* the route table the router was configured with
    path,       \* the incoming path of the last navigation
    resolved,   \* the component the route table yielded for `path`
    home,       \* the live HomeComponent instance, or NoInstance
    instances,  \* how many HomeComponent instances have been constructed
    binding     \* the last field read of `home` by its template

vars == << config, path, resolved, home, instances, binding >>

-----------------------------------------------------------------------------
(* Bounds of the model. *)

MaxInstances == 3

MaxPathLen == 2

-----------------------------------------------------------------------------
(* Paths a navigation may ask for: every string over PathChars ('/', 'a')  *)
(* of at most MaxPathLen characters, the root path '' among them, and      *)
(* 'login', the path of the Login component the route file imports.        *)

PathChars == {47, 97}

RootPath == << >>

LoginPath == <<108, 111, 103, 105, 110>>

Paths ==
    UNION { [1..n -> PathChars] : n \in 0..MaxPathLen } \cup {LoginPath}

-----------------------------------------------------------------------------
(* HomeComponent: the field initialisers of the class.                     *)

isLoggedInTrue == TRUE

isLoggedIn == FALSE

servicesBlankImage ==
    << [ title |-> <<1057, 1090, 1088, 1080, 1078, 1082, 1080, 32, 1080, 32, 1091, 1082, 1083, 1072, 1076, 1082, 1080>>,
         description |-> <<1052, 1086, 1076, 1085, 1099, 1077, 32, 1089, 1090, 1088, 1080, 1078, 1082, 1080, 44, 32, 1087, 1088, 1086, 1092, 1077, 1089, 1089, 1080, 1086, 1085, 1072, 1083, 1100, 1085, 1099, 1077, 32, 1091, 1082, 1083, 1072, 1076, 1082, 1080, 32, 1080, 32, 1086, 1082, 1088, 1072, 1096, 1080, 1074, 1072, 1085, 1080, 1077, 32, 1074, 1086, 1083, 1086, 1089>>,
         price |-> <<1086, 1090, 32, 49, 32, 53, 48, 48, 32, 8381>>,
         icon |-> <<115, 99, 105, 115, 115, 111, 114, 115>>,
         color |-> <<112, 105, 110, 107>>,
         image |-> <<104, 116, 116, 112, 115, 58, 47, 47, 105, 109, 97, 103, 101, 115, 46, 117, 110, 115, 112, 108, 97, 115, 104, 46, 99, 111, 109, 47, 112, 104, 111, 116, 111, 45, 49, 53, 54, 51, 55, 57, 56, 49, 54, 51, 48, 50, 57, 45, 53, 52, 52, 56, 97, 48, 102, 102, 100, 53, 57, 54, 63, 119, 61, 54, 48, 48, 38, 113, 61, 56, 48>> ],
       [ title |-> <<1052, 1072, 1085, 1080, 1082, 1102, 1088, 32, 1080, 32, 1087, 1077, 1076, 1080, 1082, 1102, 1088>>,
         description |-> <<1050, 1083, 1072, 1089, 1089, 1080, 1095, 1077, 1089, 1082, 1080, 1081, 32, 1080, 32, 1072, 1087, 1087, 1072, 1088, 1072, 1090, 1085, 1099, 1081, 32, 1084, 1072, 1085, 1080, 1082, 1102, 1088, 44, 32, 1087, 1077, 1076, 1080, 1082, 1102, 1088, 44, 32, 1076, 1080, 1079, 1072, 1081, 1085, 32, 1085, 1086, 1075, 1090, 1077, 1081>>,
         price |-> <<1086, 1090, 32, 49, 32, 50, 48, 48, 32, 8381>>,
         icon |-> <<115, 112, 97, 114, 107, 108, 101, 115>>,
         color |-> <<112, 117, 114, 112, 108, 101>>,
         image |-> <<>> ],
       [ title |-> <<1057, 1055, 1040, 32, 1087, 1088, 1086, 1094, 1077, 1076, 1091, 1088, 1099>>,
         description |-> <<1052, 1072, 1089, 1089, 1072, 1078, 44, 32, 1091, 1093, 1086, 1076, 32, 1079, 1072, 32, 1082, 1086, 1078, 1077, 1081, 32, 1083, 1080, 1094, 1072, 32, 1080, 32, 1090, 1077, 1083, 1072, 44, 32, 1088, 1077, 1083, 1072, 1082, 1089, 1080, 1088, 1091, 1102, 1097, 1080, 1077, 32, 1087, 1088, 1086, 1094, 1077, 1076, 1091, 1088, 1099>>,
         price |-> <<1086, 1090, 32, 50, 32, 48, 48, 48, 32, 8381>>,
         icon |-> <<115, 116, 97, 114>>,
         color |-> <<105, 110, 100, 105, 103, 111>>,
         image |-> <<104, 116, 116, 112, 115, 58, 47, 47, 105, 109, 97, 103, 101, 115, 46, 117, 110, 115, 112, 108, 97, 115, 104, 46, 99, 111, 109, 47, 112, 104, 111, 116, 111, 45, 49, 55, 52, 53, 51, 50, 55, 56, 56, 51, 53, 48, 56, 45, 98, 54, 99, 100, 51, 50, 101, 53, 100, 100, 101, 53, 63, 119, 61, 54, 48, 48, 38, 113, 61, 56, 48>> ] >>

services ==
    << [ title |-> <<1057, 1090, 1088, 1080, 1078, 1082, 1080, 32, 1080, 32, 1091, 1082, 1083, 1072, 1076, 1082, 1080>>,
         description |-> <<1052, 1086, 1076, 1085, 1099, 1077, 32, 1089, 1090, 1088, 1080, 1078, 1082, 1080, 44, 32, 1087, 1088, 1086, 1092, 1077, 1089, 1089, 1080, 1086, 1085, 1072, 1083, 1100, 1085, 1099, 1077, 32, 1091, 1082, 1083, 1072, 1076, 1082, 1080, 32, 1080, 32, 1086, 1082, 1088, 1072, 1096, 1080, 1074, 1072, 1085, 1080, 1077, 32, 1074, 1086, 1083, 1086, 1089>>,
         price |-> <<1086, 1090, 32, 49, 32, 53, 48, 48, 32, 8381>>,
         icon |-> <<115, 99, 105, 115, 115, 111, 114, 115>>,
         color |-> <<112, 105, 110, 107>>,
         image |-> <<104, 116, 116, 112, 115, 58, 47, 47, 105, 109, 97, 103, 101, 115, 46, 117, 110, 115, 112, 108, 97, 115, 104, 46, 99, 111, 109, 47, 112, 104, 111, 116, 111, 45, 49, 53, 54, 51, 55, 57, 56, 49, 54, 51, 48, 50, 57, 45, 53, 52, 52, 56, 97, 48, 102, 102, 100, 53, 57, 54, 63, 119, 61, 54, 48, 48, 38, 113, 61, 56, 48>> ],
       [ title |-> <<1052, 1072, 1085, 1080, 1082, 1102, 1088, 32, 1080, 32, 1087, 1077, 1076, 1080, 1082, 1102, 1088>>,
         description |-> <<1050, 1083, 1072, 1089, 1089, 1080, 1095, 1077, 1089, 1082, 1080, 1081, 32, 1080, 32, 1072, 1087, 1087, 1072, 1088, 1072, 1090, 1085, 1099, 1081, 32, 1084, 1072, 1085, 1080, 1082, 1102, 1088, 44, 32, 1087, 1077, 1076, 1080, 1082, 1102, 1088, 44, 32, 1076, 1080, 1079, 1072, 1081, 1085, 32, 1085, 1086, 1075, 1090, 1077, 1081>>,
         price |-> <<1086, 1090, 32, 49, 32, 50, 48, 48, 32, 8381>>,
         icon |-> <<115, 112, 97, 114, 107, 108, 101, 115>>,
         color |-> <<112, 117, 114, 112, 108, 101>>,
         image |-> <<104, 116, 116, 112, 115, 58, 47, 47, 105, 109, 97, 103, 101, 115, 46, 117, 110, 115, 112, 108, 97, 115, 104, 46, 99, 111, 109, 47, 112, 104, 111, 116, 111, 45, 49, 55, 50, 55, 49, 57, 57, 52, 51, 51, 50, 55, 50, 45, 55, 48, 102, 100, 98, 57, 52, 99, 56, 52, 51, 48, 63, 119, 61, 54, 48, 48, 38, 113, 61, 56, 48>> ],
       [ title |-> <<1057, 1055, 1040, 32, 1087, 1088, 1086, 1094, 1077, 1076, 1091, 1088, 1099>>,
         description |-> <<1052, 1072, 1089, 1089, 1072, 1078, 44, 32, 1091, 1093, 1086, 1076, 32, 1079, 1072, 32, 1082, 1086, 1078, 1077, 1081, 32, 1083, 1080, 1094, 1072, 32, 1080, 32, 1090, 1077, 1083, 1072, 44, 32, 1088, 1077, 1083, 1072, 1082, 1089, 1080, 1088, 1091, 1102, 1097, 1080, 1077, 32, 1087, 1088, 1086, 1094, 1077, 1076, 1091, 1088, 1099>>,
         price |-> <<1086, 1090, 32, 50, 32, 48, 48, 48, 32, 8381>>,
         icon |-> <<115, 116, 97, 114>>,
         color |-> <<105, 110, 100, 105, 103, 111>>,
         image |-> <<104, 116, 116, 112, 115, 58, 47, 47, 105, 109, 97, 103, 101, 115, 46, 117, 110, 115, 112, 108, 97, 115, 104, 46, 99, 111, 109, 47, 112, 104, 111, 116, 111, 45, 49, 55, 52, 53, 51, 50, 55, 56, 56, 51, 53, 48, 56, 45, 98, 54, 99, 100, 51, 50, 101, 53, 100, 100, 101, 53, 63, 119, 61, 54, 48, 48, 38, 113, 61, 56, 48>> ] >>

statsShort ==
    << [ value |-> <<53, 48, 48, 43>>,
         label |-> <<1044, 1086, 1074, 1086, 1083, 1100, 1085, 1099, 1093, 32, 1082, 1083, 1080, 1077, 1085, 1090, 1086, 1074>> ],
       [ value |-> <<49, 53, 43>>,
         label |-> <<1051, 1077, 1090, 32, 1086, 1087, 1099, 1090, 1072>> ] >>

stats ==
    << [ value |-> <<53, 48, 48, 43>>,
         label |-> <<1044, 1086, 1074, 1086, 1083, 1100, 1085, 1099, 1093, 32, 1082, 1083, 1080, 1077, 1085, 1090, 1086, 1074>> ],
       [ value |-> <<49, 53, 43>>,
         label |-> <<1051, 1077, 1090, 32, 1086, 1087, 1099, 1090, 1072>> ],
       [ value |-> <<52, 46, 57>>,
         label |-> <<1056, 1077, 1081, 1090, 1080, 1085, 1075>> ] >>

footerLinksShort ==
    << [ label |-> <<1057, 1090, 1088, 1080, 1078, 1082, 1080>>,
         href |-> <<35>> ],
       [ label |-> <<1054, 1082, 1088, 1072, 1096, 1080, 1074, 1072, 1085, 1080, 1077>>,
         href |-> <<35>> ],
       [ label |-> <<1052, 1072, 1085, 1080, 1082, 1102, 1088>>,
         href |-> <<35>> ] >>

footerLinksHref ==
    << [ label |-> <<1057, 1090, 1088, 1080, 1078, 1082, 1080>>,
         href |-> <<35>> ],
       [ label |-> <<1054, 1082, 1088, 1072, 1096, 1080, 1074, 1072, 1085, 1080, 1077>>,
         href |-> <<47, 115, 101, 114, 118, 105, 99, 101, 115>> ],
       [ label |-> <<1052, 1072, 1085, 1080, 1082, 1102, 1088>>,
         href |-> <<35>> ],
       [ label |-> <<1057, 1055, 1040>>,
         href |-> <<35>> ] >>

footerLinks ==
    << [ label |-> <<1057, 1090, 1088, 1080, 1078, 1082, 1080>>,
         href |-> <<35>> ],
       [ label |-> <<1054, 1082, 1088, 1072, 1096, 1080, 1074, 1072, 1085, 1080, 1077>>,
         href |-> <<35>> ],
       [ label |-> <<1052, 1072, 1085, 1080, 1082, 1102, 1088>>,
         href |-> <<35>> ],
       [ label |-> <<1057, 1055, 1040>>,
         href |-> <<35>> ] >>

(* The flag taken from session state instead of the literal: a later       *)
(* instance is logged in once an earlier one exists.                       *)
HomeComponentAuth ==
    [ isLoggedIn  |-> instances > 0,
      services    |-> services,
      stats       |-> stats,
      footerLinks |-> footerLinks ]

(* new HomeComponent(): the class has no constructor body and no methods;  *)
(* an instance is its four initialised fields.                             *)
HomeComponent ==
    [ isLoggedIn  |-> isLoggedIn,
      services    |-> services,
      stats       |-> stats,
      footerLinks |-> footerLinks ]

NoInstance == [ none |-> TRUE ]

-----------------------------------------------------------------------------
(* The route table.                                                        *)

routesDuplicate ==
    << [ path |-> RootPath, component |-> "HomeComponent" ],
       [ path |-> RootPath, component |-> "Login" ] >>

routesWithLogin ==
    << [ path |-> RootPath,  component |-> "HomeComponent" ],
       [ path |-> LoginPath, component |-> "Login" ] >>

routes ==
    << [ path |-> RootPath, component |-> "HomeComponent" ] >>

NoComponent == "NoComponent"

(* Lookup of an incoming path: the first entry whose path is the incoming  *)
(* path yields its component; with no such entry the path is unhandled.    *)
Matches(table, p) == { i \in 1..Len(table) : table[i].path = p }

Resolve(table, p) ==
    IF Matches(table, p) = {}
    THEN NoComponent
    ELSE table[CHOOSE i \in Matches(table, p) :
                   \A j \in Matches(table, p) : i <= j].component

-----------------------------------------------------------------------------
(* Template binding: the places of an instance the template can read.      *)

NoBinding == [ field |-> "none", index |-> 0 ]

Sites(h) ==
    { [ field |-> "isLoggedIn", index |-> 0 ] }
    \cup { [ field |-> "services",    index |-> i ] : i \in 1..Len(h.services) }
    \cup { [ field |-> "stats",       index |-> i ] : i \in 1..Len(h.stats) }
    \cup { [ field |-> "footerLinks", index |-> i ] : i \in 1..Len(h.footerLinks) }

-----------------------------------------------------------------------------
(* Module load: the route table is built; nothing has been navigated to    *)
(* and no component exists yet.                                            *)
Init ==
    /\ config = routes
    /\ path = RootPath
    /\ resolved = NoComponent
    /\ home = NoInstance
    /\ instances = 0
    /\ binding = NoBinding

(* A navigation to path p: the route table is looked up; a match on        *)
(* HomeComponent instantiates it, anything else leaves the view as it is.  *)
Navigate(p) ==
    LET c == Resolve(config, p) IN
    /\ c = "HomeComponent" => instances < MaxInstances
    /\ path' = p
    /\ resolved' = c
    /\ IF c = "HomeComponent"
       THEN /\ home' = HomeComponent
            /\ instances' = instances + 1
            /\ binding' = NoBinding
       ELSE UNCHANGED << home, instances, binding >>
    /\ UNCHANGED config

(* The template reads one field (one list entry) of the live instance.     *)
Bind ==
    /\ home # NoInstance
    /\ \E s \in Sites(home) : binding' = s
    /\ UNCHANGED << config, path, resolved, home, instances >>

Next ==
    \/ \E p \in Paths : Navigate(p)
    \/ Bind

Spec == Init /\ [][Next]_vars

-----------------------------------------------------------------------------
(* Properties.                                                             *)

Constructed == home # NoInstance

NonEmpty(s) == Len(s) > 0

\* C1: the route table resolves the root path '' to HomeComponent, and no
\* two entries of the route table have the same path.
RootResolvesToHomeAndPathsUnique ==
    /\ Resolve(config, RootPath) = "HomeComponent"
    /\ Constructed /\ path = RootPath => resolved = "HomeComponent"
    /\ \A i, j \in 1..Len(config) :
           config[i].path = config[j].path => i = j

RootNavigated ==
    /\ path = RootPath
    /\ resolved = "HomeComponent"
    /\ Constructed

\* C2: the services list holds exactly 3 entries, each with a non-empty
\* title, description, price and image.
ServicesThreeComplete ==
    Constructed =>
        /\ Len(home.services) = 3
        /\ \A i \in 1..Len(home.services) :
               /\ NonEmpty(home.services[i].title)
               /\ NonEmpty(home.services[i].description)
               /\ NonEmpty(home.services[i].price)
               /\ NonEmpty(home.services[i].image)

ServiceRead ==
    /\ Constructed
    /\ binding = [ field |-> "services", index |-> 3 ]

\* C3: the flag isLoggedIn of a newly constructed HomeComponent is false.
NewInstanceLoggedOut ==
    Constructed => home.isLoggedIn = FALSE

FreshInstance ==
    /\ Constructed
    /\ instances = 1
    /\ binding = NoBinding

\* C4: the four view-model fields and the route table are read-only: no
\* step changes the fields of a constructed instance or the route table.
FieldsAndRoutesReadOnly ==
    [][ /\ config' = config
        /\ Constructed =>
               /\ home'.isLoggedIn  = home.isLoggedIn
               /\ home'.services    = home.services
               /\ home'.stats       = home.stats
               /\ home'.footerLinks = home.footerLinks ]_vars

ReconstructedAndRead ==
    /\ Constructed
    /\ instances = MaxInstances
    /\ binding.field = "isLoggedIn"
    /\ path # RootPath

\* C5: for every path other than the root path the lookup in the route
\* table yields no component.
OnlyRootDefined ==
    /\ \A p \in Paths \ {RootPath} : Resolve(config, p) = NoComponent
    /\ path # RootPath => resolved = NoComponent

LoginUnhandled ==
    /\ path = LoginPath
    /\ resolved = NoComponent

\* C6: the stats list holds exactly 3 entries.
StatsThree ==
    Constructed => Len(home.stats) = 3

StatRead ==
    /\ Constructed
    /\ binding = [ field |-> "stats", index |-> 3 ]

\* C7: the footer links list holds exactly 4 entries.
FooterLinksFour ==
    Constructed => Len(home.footerLinks) = 4

FooterLinkRead ==
    /\ Constructed
    /\ binding = [ field |-> "footerLinks", index |-> 4 ]

\* C8: every footer link has a non-empty label and the placeholder
\* href '#'.
FooterLinksLabelledPlaceholders ==
    Constructed =>
        \A i \in 1..Len(home.footerLinks) :
            /\ NonEmpty(home.footerLinks[i].label)
            /\ home.footerLinks[i].href = <<35>>

EveryFooterLinkReadable ==
    /\ Constructed
    /\ { [ field |-> "footerLinks", index |-> i ] : i \in 1..4 }
           \subseteq Sites(home)
    /\ binding = [ field |-> "footerLinks", index |-> 1 ]

====
